---- MODULE Spec2Model ----
(***************************************************************************)
(* Job orchestration of Whisper WebUI: the jobs table (Job Registry), the  *)
(* Celery/Redis task queue, the Celery worker pool and the job-management  *)
(* endpoints, as documented in docs/api.md, docs/configuration.md and the  *)
(* deployment guides, with the worker's task body taken from the design    *)
(* specification (sections 4.1-4.3).                                       *)
(***************************************************************************)
EXTENDS Integers, Sequences, FiniteSets, TLC

(***************************************************************************)
(* Bounds of the model.                                                    *)
(***************************************************************************)
\* number of jobs that are ever submitted (ids 1..MaxJobs)
MaxJobs == 3
\* progress callbacks the inference engine makes during one execution
MaxSteps == 2
\* worker processes lost (crash or hard time limit) during one run
MaxCrashes == 1

(***************************************************************************)
(* Deployment configuration.                                               *)
(***************************************************************************)
\* celery -A celery_app worker --concurrency=2
concurrency == 2
\* worker_prefetch_multiplier=1  # One task at a time
worker_prefetch_multiplier == 1
\* task_acks_late=True: acknowledge after the task body has returned
task_acks_late_enabled == TRUE

\* The Celery app is configured without task_acks_late, so Celery's default applies:
\* a task message is acknowledged right before the task body starts.
task_acks_late == FALSE

Workers == 1..concurrency
JobIds == 1..MaxJobs

(***************************************************************************)
(* Values of the jobs table.                                               *)
(***************************************************************************)
\* JSON null of a file column (output_file) and of completed_at
NoFile == <<>>
NoTime == 0
\* JSON null of error_message
NoError == "null"

Statuses == {"pending", "processing", "completed", "failed"}
Terminal == {"completed", "failed"}

\* output files named by the time alone: transcript_{timestamp}.md
OutputFileUnnumbered(job_id, timestamp) == <<0, timestamp>>

\* Output files: transcript_{job_id}_{timestamp}.md
OutputFile(job_id, timestamp) == <<job_id, timestamp>>
\* Uploaded audio: one uploaded file is enough, it is never written
UploadedFile == <<0, 0>>

\* The row POST /api/transcribe and POST /api/enhance answer with;
\* auto_enhance is the one processing option that changes what is created.
\* created_at is the time of the insert (inserts are timed in the order of
\* their ids); updated_at is kept on the job's own clock, NoTime standing for
\* the time of creation.
NewJob(job_type, input_file, auto_enhance, created_at) ==
    [ job_type      |-> job_type,
      status        |-> "pending",
      input_file    |-> input_file,
      auto_enhance  |-> auto_enhance,
      output_file   |-> NoFile,
      error_message |-> NoError,
      progress      |-> 0,
      created_at    |-> created_at,
      updated_at    |-> NoTime,
      completed_at  |-> NoTime,
      archived      |-> FALSE ]

VARIABLES
    jobs,       \* the jobs table: job id -> row
    next_id,    \* next primary key of the jobs table
    queue,      \* the Redis list "celery": task messages, each a job id
    worker,     \* per worker process: where its task handling stands
    outputs,    \* files in the outputs volume
    crashes,    \* worker processes lost so far
    stamps,     \* job id -> finalizations so far: the clock the worker's
                \* timestamps of that job are read from
    client,     \* the browser: the state of the mounted JobQueue component
                \* and the requests of its useJobs hook that are in flight
    hook,       \* a component that follows one job with the useJob hook
    page,       \* the submit form of the mounted TranscribePage / EnhancePage
    uploader,   \* the AudioUploader component
    preview     \* the AudioPreview component

\* the state of the React components other than the job list
components == <<hook, page, uploader, preview>>

\* the state of the server: jobs table, queue, workers and volumes
backend == <<jobs, next_id, queue, worker, outputs, crashes, stamps>>

vars == <<jobs, next_id, queue, worker, outputs, crashes, stamps, client,
          hook, page, uploader, preview>>

Idle == [pc |-> "idle", job_id |-> 0, unacked |-> FALSE, step |-> 0]

\* The page at route "/" with useJobs before its first fetch: useState([]),
\* no response on its way; applied records the jobs whose archive request
\* was followed by a refetch that has been applied to the list
Mounted == [tab |-> "transcribe", jobs |-> <<>>, responses |-> {},
            applied |-> {}]

\* JSON null / JavaScript null of a state variable
Null == "null"

\* useJob after useState and before its first effect: job null,
\* shouldStopPolling false, no interval, nothing requested
useJobMounted ==
    [ job               |-> Null,
      shouldStopPolling |-> FALSE,
      effect            |-> TRUE,
      interval          |-> FALSE,
      responses         |-> <<>>,
      issued            |-> 0 ]

\* files the user uploads (TranscribePage: named by filename) or completed
\* jobs the user selects (EnhancePage: named by job id)
MaxFiles == 2
Items == 1..MaxFiles

\* TranscribePage / EnhancePage after useState: list is uploadedFiles or
\* selectedJobIds, error is the set of items the message names (empty for
\* null), calls are the create requests awaited by handleSubmitSingle, loop
\* is what the for-of of a running handleSubmitAll has left of its snapshot,
\* resume says that its continuation is due; single records the items
\* submitted through their own button while the batch is running, failed
\* whether a request of the batch failed
PageMounted(kind) ==
    [ kind           |-> kind,
      list           |-> <<>>,
      submittingJobs |-> {},
      error          |-> {},
      calls          |-> {},
      loop           |-> <<>>,
      batch          |-> "idle",
      resume         |-> FALSE,
      single         |-> {},
      failed         |-> FALSE ]

\* AudioUploader after useState: no upload, error null.  files is the
\* selection handleFileSelect was last called with, rest what its loop has
\* left; requests are the uploads it sent, results how they settled and
\* succeeded the files it passed to onUploadSuccess.
AudioUploaderMounted ==
    [ uploading |-> FALSE,
      error     |-> {},
      files     |-> <<>>,
      rest      |-> <<>>,
      requests  |-> <<>>,
      results   |-> <<>>,
      succeeded |-> <<>> ]

\* AudioPreview mounted before the duration of a file is known:
\* useState(0), useState(duration || 0)
AudioPreviewMounted == [duration |-> 0, startTime |-> 0, endTime |-> 0]

Init ==
    /\ client = Mounted
    /\ hook = useJobMounted
    /\ page = PageMounted("transcribe")
    /\ uploader = AudioUploaderMounted
    /\ preview = AudioPreviewMounted
    /\ jobs = <<>>
    /\ next_id = 1
    /\ queue = <<>>
    /\ worker = [w \in Workers |-> Idle]
    /\ outputs = {}
    /\ crashes = 0
    /\ stamps = [j \in JobIds |-> 0]

(***************************************************************************)
(* Registry writes.  Every write is one UPDATE of one row and changes only *)
(* the named columns; a write to an id without a row changes nothing.      *)
(***************************************************************************)
HasRow(job_id) == job_id \in DOMAIN jobs

\* datetime.utcnow() at a finalization of the job: later finalizations of one
\* job read later times
Now(job_id) == stamps[job_id] + 1

\* time passes with each finalization
Stamp(job_id) == [stamps EXCEPT ![job_id] = @ + 1]

\* an update that saves every column of the row as the task knows it, the
\* archived flag as it was when the job was created
UpdateRowAllColumns(job_id, row) ==
    IF HasRow(job_id)
    THEN [jobs EXCEPT ![job_id] = [row EXCEPT !.updated_at = Now(job_id),
                                              !.archived = FALSE]]
    ELSE jobs

\* the worker's UPDATE of a row, which also sets updated_at
UpdateRow(job_id, row) ==
    IF HasRow(job_id)
    THEN [jobs EXCEPT ![job_id] = [row EXCEPT !.updated_at = Now(job_id)]]
    ELSE jobs

\* a status write that saves the whole row with the options at their defaults
ProcessingRowDefaults(row) ==
    [row EXCEPT !.status = "processing", !.auto_enhance = FALSE]

\* a task that starts computing without writing the status first
ProcessingRowUnwritten(row) == row

\* status=processing, written when the worker picks the job up
ProcessingRow(row) == [row EXCEPT !.status = "processing"]

\* a progress callback's write
ProgressRow(row, percent) == [row EXCEPT !.progress = percent]

\* a completion that leaves progress where the last callback put it
CompletedRowKeepsProgress(row, output_file, timestamp) ==
    [row EXCEPT !.status = "completed",
                !.output_file = output_file,
                !.completed_at = timestamp]

\* a completion that does not record where the output file is
CompletedRowNoOutput(row, output_file, timestamp) ==
    [row EXCEPT !.status = "completed",
                !.progress = 100,
                !.completed_at = timestamp]

\* the row of a job that finished: output_file, progress 100, completed_at
CompletedRow(row, output_file, timestamp) ==
    [row EXCEPT !.status = "completed",
                !.output_file = output_file,
                !.progress = 100,
                !.completed_at = timestamp]

\* a failure that does not record its cause
FailedRowNoMessage(row, error_message, timestamp) ==
    [row EXCEPT !.status = "failed",
                !.completed_at = timestamp]

\* the row of a job that failed: error_message, completed_at
FailedRow(row, error_message, timestamp) ==
    [row EXCEPT !.status = "failed",
                !.error_message = error_message,
                !.completed_at = timestamp]

\* progress reported by the callback after `step` of the engine's steps;
\* 100 is written by completion only
Percent(step) == (step * 100) \div (MaxSteps + 1)

(***************************************************************************)
(* Job Lifecycle Controller: the API process.                              *)
(***************************************************************************)
\* POST /api/transcribe: insert the row, then send the task to Celery
CreateTranscribeJob(auto_enhance) ==
    /\ next_id <= MaxJobs
    /\ jobs' = jobs @@ (next_id :>
                          NewJob("transcribe", UploadedFile, auto_enhance,
                                 next_id))
    /\ queue' = Append(queue, next_id)
    /\ next_id' = next_id + 1
    /\ UNCHANGED <<worker, outputs, crashes, stamps, client,
                   components>>

\* POST /api/transcribe while the broker cannot be reached: the row is
\* committed, then sending the task fails.  The two effects are not
\* transactional, the row stays.
DispatchFailure ==
    /\ next_id <= MaxJobs
    /\ jobs' = jobs @@ (next_id :> NewJob("transcribe", UploadedFile, FALSE,
                                         next_id))
    /\ next_id' = next_id + 1
    /\ UNCHANGED <<queue, worker, outputs, crashes, stamps, client,
                   components>>

\* status codes of the job endpoints
OK == 200
BadRequest == 400
NotFound == 404

\* POST /api/enhance: 404 Source job not found, 400 Source job not completed
\* or transcript not found, 200 otherwise
EnhanceStatusCode(table, files, source) ==
    IF source \notin DOMAIN table THEN NotFound
    ELSE IF table[source].status # "completed"
              \/ table[source].output_file \notin files THEN BadRequest
    ELSE OK

\* a submit that inserts the row before it validates the source job
submit_enhance_row_first(table, files, q, id, source) ==
    [ status_code |-> EnhanceStatusCode(table, files, source),
      jobs        |-> table @@ (id :>
                         NewJob("enhance", IF source \in DOMAIN table
                                           THEN table[source].output_file
                                           ELSE NoFile, FALSE, id)),
      queue       |-> IF EnhanceStatusCode(table, files, source) = OK
                      THEN Append(q, id) ELSE q,
      next_id     |-> id + 1 ]

\* Submitting an enhance job against the jobs table `table`, the outputs
\* volume `files`, the queue `q` and the next primary key `id`: the response
\* code and what is left in the table and on the queue.  The new job's
\* input_file is the source job's output file.
submit_enhance(table, files, q, id, source) ==
    IF EnhanceStatusCode(table, files, source) = OK
    THEN [ status_code |-> OK,
           jobs        |-> table @@ (id :>
                              NewJob("enhance", table[source].output_file,
                                     FALSE, id)),
           queue       |-> Append(q, id),
           next_id     |-> id + 1 ]
    ELSE [ status_code |-> EnhanceStatusCode(table, files, source),
           jobs        |-> table,
           queue       |-> q,
           next_id     |-> id ]

\* the handler of POST /api/enhance on the current state
create_enhance_job(source) ==
    submit_enhance(jobs, outputs, queue, next_id, source)

\* POST /api/enhance is called with the id `source`
CreateEnhanceJob(source) ==
    /\ next_id <= MaxJobs
    /\ jobs' = create_enhance_job(source).jobs
    /\ queue' = create_enhance_job(source).queue
    /\ next_id' = create_enhance_job(source).next_id
    /\ UNCHANGED <<worker, outputs, crashes, stamps, client,
                   components>>

\* an archive that flips the flag instead of setting it
archive_job_toggled(table, job_id) ==
    [table EXCEPT ![job_id].archived = ~@]

\* an archive that also counts as a modification of the row
archive_job_touched(table, job_id) ==
    [table EXCEPT ![job_id].archived = TRUE,
                  ![job_id].updated_at = @ + 1]

\* the jobs table after job_id was archived
archive_job(table, job_id) ==
    [table EXCEPT ![job_id].archived = TRUE]

\* the jobs table after job_id was unarchived
unarchive_job(table, job_id) ==
    [table EXCEPT ![job_id].archived = FALSE]

\* PUT /api/jobs/{job_id}/archive: 404 without the row
ArchiveJob(job_id) ==
    /\ HasRow(job_id)
    /\ jobs' = archive_job(jobs, job_id)
    /\ UNCHANGED <<next_id, queue, worker, outputs, crashes, stamps, client,
                   components>>

\* PUT /api/jobs/{job_id}/unarchive: 404 without the row
UnarchiveJob(job_id) ==
    /\ HasRow(job_id)
    /\ jobs' = unarchive_job(jobs, job_id)
    /\ UNCHANGED <<next_id, queue, worker, outputs, crashes, stamps, client,
                   components>>

\* GET /api/jobs/{job_id}: the row as the client's poll reads it
get_job(job_id) == jobs[job_id]

\* a lookup that answers 200 for every id
RowStatusCodeAlwaysOK(table, job_id) == OK

\* GET /api/jobs/{job_id}, PUT .../archive, PUT .../unarchive and
\* DELETE /api/jobs/{job_id}: 200 when the job is found, 404 Job not found
RowStatusCode(table, job_id) ==
    IF job_id \in DOMAIN table THEN OK ELSE NotFound

\* the response of PUT /api/jobs/{job_id}/archive and the table it leaves
put_archive(table, job_id) ==
    [ status_code |-> RowStatusCode(table, job_id),
      jobs        |-> IF RowStatusCode(table, job_id) = OK
                      THEN archive_job(table, job_id) ELSE table ]

\* the response of PUT /api/jobs/{job_id}/unarchive and the table it leaves
put_unarchive(table, job_id) ==
    [ status_code |-> RowStatusCode(table, job_id),
      jobs        |-> IF RowStatusCode(table, job_id) = OK
                      THEN unarchive_job(table, job_id) ELSE table ]

\* a result endpoint that reads the output file whatever the status is
get_job_result_unchecked(table, files, job_id) ==
    IF RowStatusCode(table, job_id) = NotFound
    THEN [status_code |-> NotFound, content |-> NoFile]
    ELSE [status_code |-> OK, content |-> table[job_id].output_file]

\* GET /api/jobs/{job_id}/result and .../download: 404 Job or output file not
\* found, 400 Job not completed, 200 with the content of the output file
\* (a file stands for its content)
get_job_result(table, files, job_id) ==
    IF RowStatusCode(table, job_id) = NotFound
    THEN [status_code |-> NotFound, content |-> NoFile]
    ELSE IF table[job_id].status # "completed"
    THEN [status_code |-> BadRequest, content |-> NoFile]
    ELSE IF table[job_id].output_file \notin files
    THEN [status_code |-> NotFound, content |-> NoFile]
    ELSE [status_code |-> OK, content |-> table[job_id].output_file]

\* no request was sent
NoRequest == [status_code |-> 0, content |-> NoFile]

\* JobTable.handleDownload for the job `job` of the table with id job_id:
\* returns at once unless the job is completed
handleDownload(job_id, job) ==
    IF job.status # "completed" THEN NoRequest
    ELSE get_job_result(jobs, outputs, job_id)

\* the uploads volume: uploaded audio stays where the upload put it
Uploads == {UploadedFile}

\* a delete that removes the job's input along with its output
delete_job_with_input(table, files, uploads, job_id) ==
    IF RowStatusCode(table, job_id) = OK
    THEN [ status_code |-> OK,
           jobs        |-> [j \in DOMAIN table \ {job_id} |-> table[j]],
           outputs     |-> files \ {table[job_id].output_file,
                                    table[job_id].input_file},
           uploads     |-> uploads \ {table[job_id].input_file} ]
    ELSE [ status_code |-> NotFound, jobs |-> table,
           outputs |-> files, uploads |-> uploads ]

\* a delete that removes the job and every job created from its transcript
delete_job_cascading(table, files, uploads, job_id) ==
    IF RowStatusCode(table, job_id) = OK
    THEN LET gone == {job_id} \cup
                       {j \in DOMAIN table :
                           /\ table[j].job_type = "enhance"
                           /\ table[j].input_file = table[job_id].output_file
                           /\ table[job_id].output_file # NoFile}
         IN [ status_code |-> OK,
              jobs        |-> [j \in DOMAIN table \ gone |-> table[j]],
              outputs     |-> files \ {table[j].output_file : j \in gone},
              uploads     |-> uploads ]
    ELSE [ status_code |-> NotFound, jobs |-> table,
           outputs |-> files, uploads |-> uploads ]

\* DELETE /api/jobs/{job_id}: deletes the job record and the output
\* transcript file (if exists); the original uploaded audio is not deleted.
\* The response code and what is left in the table and on the volumes.
delete_job(table, files, uploads, job_id) ==
    IF RowStatusCode(table, job_id) = OK
    THEN [ status_code |-> OK,
           jobs        |-> [j \in DOMAIN table \ {job_id} |-> table[j]],
           outputs     |-> files \ {table[job_id].output_file},
           uploads     |-> uploads ]
    ELSE [ status_code |-> NotFound, jobs |-> table,
           outputs |-> files, uploads |-> uploads ]

\* a primary key taken from the rows that are left: one more than the
\* largest id in the table (a rowid without AUTOINCREMENT)
sequence_from_rows(table, id) ==
    IF DOMAIN table = {} THEN 1
    ELSE 1 + CHOOSE j \in DOMAIN table : \A k \in DOMAIN table : j >= k

\* the next primary key after rows were deleted: ids are assigned from a
\* sequence that deleting rows does not move
sequence(table, id) == id

\* DELETE /api/jobs/{job_id} is called for an existing job.  The job's
\* message, if one is queued or held by a worker, is not recalled.
DeleteJob(job_id) ==
    /\ HasRow(job_id)
    /\ jobs' = delete_job(jobs, outputs, Uploads, job_id).jobs
    /\ outputs' = delete_job(jobs, outputs, Uploads, job_id).outputs
    /\ next_id' = sequence(delete_job(jobs, outputs, Uploads, job_id).jobs,
                           next_id)
    /\ UNCHANGED <<queue, worker, crashes, stamps, client,
                   components>>

(***************************************************************************)
(* GET /api/jobs and the frontend's call of it.                            *)
(***************************************************************************)
\* limit (int): Max results to return (default: 100)
default_limit == 100
\* offset (int): Number of results to skip (default: 0)
default_offset == 0

JobTypes == {"transcribe", "enhance"}

RECURSIVE Digits(_)
\* A number appended to URLSearchParams is sent as its decimal digits.
Digits(n) ==
    IF n < 10 THEN <<n>> ELSE Append(Digits(n \div 10), n % 10)

RECURSIVE ParseInt(_)
\* an int query parameter as the server parses it
ParseInt(digits) ==
    IF digits = <<>> THEN 0
    ELSE 10 * ParseInt(SubSeq(digits, 1, Len(digits) - 1))
            + digits[Len(digits)]

\* the filters object without the key
NoParam == <<>>

\* query parameters that send `archived` only when it is truthy
QueryParamsArchivedIfTruthy(filters) ==
       (IF "job_type" \in DOMAIN filters /\ filters.job_type # ""
        THEN "job_type" :> filters.job_type ELSE NoParam)
    @@ (IF "status" \in DOMAIN filters /\ filters.status # ""
        THEN "status" :> filters.status ELSE NoParam)
    @@ (IF "archived" \in DOMAIN filters /\ filters.archived # 0
        THEN "archived" :> Digits(filters.archived) ELSE NoParam)
    @@ (IF "limit" \in DOMAIN filters /\ filters.limit # 0
        THEN "limit" :> Digits(filters.limit) ELSE NoParam)
    @@ (IF "offset" \in DOMAIN filters /\ filters.offset # 0
        THEN "offset" :> Digits(filters.offset) ELSE NoParam)

\* apiService.getJobs: the query string built from the filters object.
\* job_type, status, limit and offset are sent when truthy, archived whenever
\* it is not undefined.
QueryParams(filters) ==
       (IF "job_type" \in DOMAIN filters /\ filters.job_type # ""
        THEN "job_type" :> filters.job_type ELSE NoParam)
    @@ (IF "status" \in DOMAIN filters /\ filters.status # ""
        THEN "status" :> filters.status ELSE NoParam)
    @@ (IF "archived" \in DOMAIN filters
        THEN "archived" :> Digits(filters.archived) ELSE NoParam)
    @@ (IF "limit" \in DOMAIN filters /\ filters.limit # 0
        THEN "limit" :> Digits(filters.limit) ELSE NoParam)
    @@ (IF "offset" \in DOMAIN filters /\ filters.offset # 0
        THEN "offset" :> Digits(filters.offset) ELSE NoParam)

\* the archived column as the int the filter compares with
ArchivedColumn(row) == IF row.archived THEN 1 ELSE 0

RECURSIVE OrderByCreatedAtDesc(_, _)
\* ORDER BY created_at DESC of the rows `ids` of `table`
OrderByCreatedAtDesc(table, ids) ==
    IF ids = {} THEN <<>>
    ELSE LET newest == CHOOSE j \in ids :
                          \A k \in ids :
                              table[j].created_at >= table[k].created_at
         IN <<newest>> \o OrderByCreatedAtDesc(table, ids \ {newest})

\* GET /api/jobs: filter by the parameters given, count, order, skip `offset`
\* rows and return at most `limit`.  The response lists the jobs by id.
list_jobs(table, params) ==
    LET by_type == {j \in DOMAIN table :
                      "job_type" \in DOMAIN params
                          => table[j].job_type = params.job_type}
        by_status == {j \in by_type :
                      "status" \in DOMAIN params
                          => table[j].status = params.status}
        by_archived == {j \in by_status :
                      "archived" \in DOMAIN params
                          => ArchivedColumn(table[j])
                                = ParseInt(params.archived)}
        limit == IF "limit" \in DOMAIN params
                 THEN ParseInt(params.limit) ELSE default_limit
        offset == IF "offset" \in DOMAIN params
                  THEN ParseInt(params.offset) ELSE default_offset
        ordered == OrderByCreatedAtDesc(table, by_archived)
        last == IF offset + limit < Len(ordered)
                THEN offset + limit ELSE Len(ordered)
    IN [ jobs  |-> SubSeq(ordered, offset + 1, last),
         total |-> Cardinality(by_archived) ]

\* apiService.getJobs(filters): the response of GET /api/jobs?{params}
getJobs(filters) == list_jobs(jobs, QueryParams(filters))

(***************************************************************************)
(* The browser: the pages, their job lists and the useJobs hook.           *)
(***************************************************************************)
\* routes "/", "/enhance" and "/archive"
Tabs == {"transcribe", "enhance", "archive"}

\* responses of GET /api/jobs that are on their way to the hook at one time
MaxInFlight == 2

\* the filters the page's list is fetched with: JobQueue on the Transcribe
\* and Enhance pages, ArchivePage
useJobsFilters(tab) ==
    IF tab = "archive" THEN "archived" :> 1
    ELSE ("job_type" :> tab) @@ ("archived" :> 0)

\* a job of the response, with the fields the lists' buttons read
JobJSON(table, job_id) == [id |-> job_id, status |-> table[job_id].status]

\* data.jobs of the response of getJobs(filters) read from the table
JobsData(table, filters) ==
    LET ids == list_jobs(table, QueryParams(filters)).jobs
    IN [i \in 1..Len(ids) |-> JobJSON(table, ids[i])]

\* the ids of the jobs the list shows
Listed == {client.jobs[i].id : i \in 1..Len(client.jobs)}

\* the buttons JobQueue renders for a job: View, Download and Archive for a
\* completed job, Delete for every job
JobQueueButtons(job) ==
    (IF job.status = "completed" THEN {"view", "download", "archive"}
     ELSE {}) \cup {"delete"}

\* the buttons JobTable renders for a job
JobTableButtons(showArchive, showUnarchive) ==
    {"view", "download", "delete"}
        \cup (IF showArchive THEN {"archive"} ELSE {})
        \cup (IF showUnarchive THEN {"unarchive"} ELSE {})

\* the buttons a page renders for a job of its list
Buttons(tab, job) ==
    IF tab = "archive" THEN JobTableButtons(FALSE, TRUE)
    ELSE JobQueueButtons(job)

\* a response of GET /api/jobs on its way to the hook; refetch_of names the
\* job whose archive request the fetch followed
Response(table, tab, refetch_of) ==
    [jobs |-> JobsData(table, useJobsFilters(tab)), refetch_of |-> refetch_of]

\* The user opens another page: the page's components are mounted anew and
\* responses to the hook of the page that was left are dropped.
Navigate(tab) ==
    /\ tab # client.tab
    /\ client' = [Mounted EXCEPT !.tab = tab]
    /\ UNCHANGED <<jobs, next_id, queue, worker, outputs, crashes, stamps,
                   components>>

\* useJobs.fetchJobs, called on mount and by setInterval every
\* refreshInterval whether or not an earlier call has returned: the server
\* answers from the table as it is, the response is on its way.
fetchJobs ==
    /\ Cardinality(client.responses) < MaxInFlight
    /\ client' = [client EXCEPT
                    !.responses = @ \cup {Response(jobs, client.tab, 0)}]
    /\ UNCHANGED <<jobs, next_id, queue, worker, outputs, crashes, stamps,
                   components>>

\* A response arrives, in whatever order the responses come in:
\* setJobs(data.jobs).
setJobs(response) ==
    /\ response \in client.responses
    /\ client' = [client EXCEPT
                    !.jobs = response.jobs,
                    !.responses = @ \ {response},
                    !.applied = IF response.refetch_of = 0 THEN @
                                ELSE @ \cup {response.refetch_of}]
    /\ UNCHANGED <<jobs, next_id, queue, worker, outputs, crashes, stamps,
                   components>>

\* JobQueue.handleArchive on the Archive button of a listed job:
\* await apiService.archiveJob(jobId), then refetch().  A 404 is caught and
\* nothing is fetched.
handleArchive(i) ==
    /\ i \in 1..Len(client.jobs)
    /\ "archive" \in Buttons(client.tab, client.jobs[i])
    /\ put_archive(jobs, client.jobs[i].id).status_code = OK
    /\ Cardinality(client.responses) < MaxInFlight
    /\ jobs' = put_archive(jobs, client.jobs[i].id).jobs
    /\ client' = [client EXCEPT
                    !.responses = @ \cup {Response(jobs', client.tab,
                                                   client.jobs[i].id)}]
    /\ UNCHANGED <<next_id, queue, worker, outputs, crashes, stamps,
                   components>>

\* JobTable.handleUnarchive on the Restore button of a listed job:
\* await apiService.unarchiveJob(job.id), then onJobUpdate() (refetch)
handleUnarchive(i) ==
    /\ i \in 1..Len(client.jobs)
    /\ "unarchive" \in Buttons(client.tab, client.jobs[i])
    /\ put_unarchive(jobs, client.jobs[i].id).status_code = OK
    /\ Cardinality(client.responses) < MaxInFlight
    /\ jobs' = put_unarchive(jobs, client.jobs[i].id).jobs
    /\ client' = [client EXCEPT
                    !.responses = @ \cup {Response(jobs', client.tab, 0)},
                    !.applied = @ \ {client.jobs[i].id}]
    /\ UNCHANGED <<next_id, queue, worker, outputs, crashes, stamps,
                   components>>

\* JobQueue.handleDelete and JobTable.handleDelete on the Delete button of a
\* listed job, once the user has confirmed:
\* await apiService.deleteJob(jobId), then refetch()
handleDelete(i) ==
    /\ i \in 1..Len(client.jobs)
    /\ "delete" \in Buttons(client.tab, client.jobs[i])
    /\ HasRow(client.jobs[i].id)
    /\ Cardinality(client.responses) < MaxInFlight
    /\ jobs' = delete_job(jobs, outputs, Uploads, client.jobs[i].id).jobs
    /\ outputs' = delete_job(jobs, outputs, Uploads, client.jobs[i].id).outputs
    /\ next_id' = sequence(jobs', next_id)
    /\ client' = [client EXCEPT
                    !.responses = @ \cup {Response(jobs', client.tab, 0)}]
    /\ UNCHANGED <<queue, worker, crashes, stamps,
                   components>>

(***************************************************************************)
(* The useJob hook: one job followed by polling GET /api/jobs/{job_id}.    *)
(***************************************************************************)
\* the jobId the component passes to useJob
jobId == 1
\* getJob requests the hook issues before the model stops following it
MaxRequests == 4

\* The effect's dependency list [jobId, fetchJob, autoRefresh,
\* refreshInterval, shouldStopPolling]: with jobId and the options fixed, the
\* effect is run again when a render sees shouldStopPolling changed.
useJobDeps(before, after) == before # after

\* setShouldStopPolling(value): the next render sees the value, and the
\* effect is scheduled when its dependencies changed
setShouldStopPolling(h, value) ==
    [h EXCEPT !.shouldStopPolling = value,
              !.effect = @ \/ useJobDeps(h.shouldStopPolling, value)]

\* fetchJob up to its await: apiService.getJob(jobId) is sent, and the server
\* answers with the status the row has now
getJob(h) ==
    [h EXCEPT !.responses = Append(@, get_job(jobId).status),
              !.issued = @ + 1]

\* The effect of useJob runs (after the mount, and after a render that saw
\* its dependencies changed): the cleanup of the previous run clears the
\* interval; then setShouldStopPolling(false), fetchJob(), and the interval
\* is set if this render's shouldStopPolling is false.
useJobEffect ==
    /\ hook.effect
    /\ HasRow(jobId)
    /\ hook.issued < MaxRequests
    /\ hook' = getJob(setShouldStopPolling(
                    [hook EXCEPT !.effect = FALSE,
                                 !.interval = ~hook.shouldStopPolling],
                    FALSE))
    /\ UNCHANGED <<backend, client, page, uploader, preview>>

\* The interval fires: its callback closed over the shouldStopPolling of the
\* render that set it, which was false.
useJobInterval ==
    /\ hook.interval
    /\ HasRow(jobId)
    /\ hook.issued < MaxRequests
    /\ hook' = getJob(hook)
    /\ UNCHANGED <<backend, client, page, uploader, preview>>

\* the hook after the response with this status was applied
fetchJobResolved(h, status) ==
    IF status \in Terminal
    THEN setShouldStopPolling([h EXCEPT !.job = status], TRUE)
    ELSE [h EXCEPT !.job = status]

\* A getJob request returns: setJob(data), and shouldStopPolling is set when
\* the job is completed or failed.
fetchJob(i) ==
    /\ i \in 1..Len(hook.responses)
    /\ hook' = fetchJobResolved(
                    [hook EXCEPT !.responses =
                        SubSeq(@, 1, i - 1) \o SubSeq(@, i + 1, Len(@))],
                    hook.responses[i])
    /\ UNCHANGED <<backend, client, page, uploader, preview>>

(***************************************************************************)
(* TranscribePage and EnhancePage: the list of items to submit, the single *)
(* and the batch submission.  The two pages run the same handlers, over    *)
(* uploadedFiles keyed by filename and over selectedJobIds.                *)
(***************************************************************************)
Range(seq) == {seq[i] : i \in 1..Len(seq)}

\* prev.filter(f => f.filename !== fileInfo.filename)
Without(seq, item) == SelectSeq(seq, LAMBDA x : x # item)

\* The user opens the Transcribe or the Enhance page while no submission of
\* the page he leaves is under way.
Visit(tab) ==
    /\ tab \in {"transcribe", "enhance"}
    /\ page.calls = {}
    /\ ~page.resume
    /\ client' = [Mounted EXCEPT !.tab = tab]
    /\ page' = PageMounted(tab)
    /\ UNCHANGED <<backend, hook, uploader, preview>>

\* TranscribePage: an upload succeeded; a file already listed is not added
handleUploadSuccess(item) ==
    /\ page.kind = "transcribe"
    /\ ~page.resume
    /\ page' = [page EXCEPT
                    !.list = IF item \in Range(@) THEN @ ELSE Append(@, item),
                    !.error = {}]
    /\ UNCHANGED <<backend, client, hook, uploader, preview>>

\* EnhancePage: a transcript is clicked in the selector, which toggles it
handleSelect(item) ==
    /\ page.kind = "enhance"
    /\ ~page.resume
    /\ page' = [page EXCEPT
                    !.list = IF item \in Range(@) THEN Without(@, item)
                             ELSE Append(@, item)]
    /\ UNCHANGED <<backend, client, hook, uploader, preview>>

\* TranscribePage: the remove button of a file, disabled while the file is
\* being submitted
RemoveFile(item) ==
    /\ page.kind = "transcribe"
    /\ ~page.resume
    /\ item \in Range(page.list)
    /\ item \notin page.submittingJobs
    /\ page' = [page EXCEPT !.list = Without(@, item)]
    /\ UNCHANGED <<backend, client, hook, uploader, preview>>

\* handleSubmitSingle up to its await: the item is marked as submitting,
\* error is cleared and the create request is sent
handleSubmitSingle(p, item, batch) ==
    [p EXCEPT !.submittingJobs = @ \cup {item},
              !.error = {},
              !.calls = @ \cup {[item |-> item, batch |-> batch]}]

\* a handler whose failure path leaves the entry in submittingJobs
handleSubmitSingleNoFinally(p, item, ok) ==
    IF ok
    THEN [p EXCEPT !.list = Without(@, item),
                   !.submittingJobs = @ \ {item}]
    ELSE [p EXCEPT !.error = {item}]

\* handleSubmitSingle after its await: on success the item is removed from
\* the list, on failure error names the item; finally the entry of the item
\* is deleted from submittingJobs
handleSubmitSingleSettled(p, item, ok) ==
    IF ok
    THEN [p EXCEPT !.list = Without(@, item),
                   !.submittingJobs = @ \ {item}]
    ELSE [p EXCEPT !.error = {item},
                   !.submittingJobs = @ \ {item}]

\* TranscribePage: the Add to Queue button of a file, shown while the file
\* is not being submitted
AddToQueue(item) ==
    /\ page.kind = "transcribe"
    /\ ~page.resume
    /\ item \in Range(page.list)
    /\ item \notin page.submittingJobs
    /\ page' = handleSubmitSingle(
                    [page EXCEPT !.single = IF page.batch = "running"
                                            THEN @ \cup {item} ELSE @],
                    item, FALSE)
    /\ UNCHANGED <<backend, client, hook, uploader, preview>>

\* The batch button, rendered while the list is not empty and enabled while
\* submittingJobs is empty: the for-of loop takes the list as it is now and
\* calls handleSubmitSingle for its first item.  A batch is started while no
\* other batch is running.
handleSubmitAll ==
    /\ ~page.resume
    /\ page.batch # "running"
    /\ page.list # <<>>
    /\ page.submittingJobs = {}
    /\ page' = handleSubmitSingle(
                    [page EXCEPT !.loop = Tail(page.list),
                                 !.batch = "running",
                                 !.single = {},
                                 !.failed = FALSE],
                    Head(page.list), TRUE)
    /\ UNCHANGED <<backend, client, hook, uploader, preview>>

\* A create request settles and handleSubmitSingle returns; the call of the
\* batch loop leaves the loop's continuation due.
createJobSettles(call, ok) ==
    /\ ~page.resume
    /\ call \in page.calls
    /\ page' = [handleSubmitSingleSettled(page, call.item, ok) EXCEPT
                    !.calls = @ \ {call},
                    !.resume = call.batch,
                    !.failed = @ \/ (call.batch /\ ~ok)]
    /\ UNCHANGED <<backend, client, hook, uploader, preview>>

\* The for-of loop goes on after its await, before any other event is
\* handled: the next item of the snapshot is submitted, or the batch ends.
forOf ==
    /\ page.resume
    /\ page' = IF page.loop = <<>>
               THEN [page EXCEPT !.resume = FALSE, !.batch = "finished",
                                 !.single = {}]
               ELSE handleSubmitSingle(
                        [page EXCEPT !.resume = FALSE,
                                     !.loop = Tail(page.loop)],
                        Head(page.loop), TRUE)
    /\ UNCHANGED <<backend, client, hook, uploader, preview>>

(***************************************************************************)
(* AudioUploader: validation of a selection and the sequential uploads.    *)
(***************************************************************************)
\* files of one selection
MaxSelection == 3

\* File names as name.split('.') sees them: a song and a talk with an audio
\* extension (one in capitals), a text file, and two names without a dot
Names == { <<"song", "mp3">>, <<"talk", "MP3">>, <<"notes", "txt">>,
           <<"wav">>, <<"README">> }

\* the selections the user makes: one to MaxSelection files in some order
Selections ==
    UNION {[1..n -> Names] : n \in 1..MaxSelection}

\* String.prototype.toLowerCase on the parts of the names
toLowerCase(part) ==
    CASE part = "MP3" -> "mp3"
      [] part = "README" -> "readme"
      [] OTHER -> part

allowedExtensions ==
    { <<".", "mp3">>, <<".", "wav">>, <<".", "flac">>, <<".", "aac">>,
      <<".", "ogg">>, <<".", "m4a">>, <<".", "wma">> }

\* a check that accepts every file
validateFileAlways(name) == TRUE

\* '.' + file.name.split('.').pop().toLowerCase() is one of the allowed
\* extensions
validateFile(name) ==
    <<".", toLowerCase(name[Len(name)])>> \in allowedExtensions

\* fileArray.filter(file => !validateFile(file))
invalidFiles(files) == SelectSeq(files, LAMBDA name : ~validateFile(name))

\* uploadSingleFile up to its await: the upload request of the file is sent
uploadSingleFile(u, name) ==
    [u EXCEPT !.uploading = TRUE,
              !.requests = Append(@, name)]

\* The user selects or drops files while no selection is being uploaded:
\* the whole selection is validated, then the first file is uploaded.
handleFileSelect(files) ==
    /\ ~uploader.uploading
    /\ files \in Selections
    /\ uploader' =
         IF invalidFiles(files) # <<>>
         THEN [AudioUploaderMounted EXCEPT
                    !.files = files,
                    !.error = Range(invalidFiles(files))]
         ELSE uploadSingleFile(
                [AudioUploaderMounted EXCEPT !.files = files,
                                             !.rest = Tail(files)],
                files[1])
    /\ UNCHANGED <<backend, client, hook, page, preview>>

\* a catch block that does not throw again: the loop goes on
AfterFailureGoesOn(rest) == rest

\* uploadSingleFile throws the error again, which ends the loop of
\* handleFileSelect: nothing is left to upload
AfterFailure(rest) == <<>>

\* uploadSingleFile after its await: onUploadSuccess(result) on success,
\* error naming the file on failure
uploadSingleFileSettled(u, ok) ==
    LET name == u.requests[Len(u.requests)] IN
    IF ok
    THEN [u EXCEPT !.uploading = FALSE,
                   !.results = Append(@, TRUE),
                   !.succeeded = Append(@, name)]
    ELSE [u EXCEPT !.uploading = FALSE,
                   !.results = Append(@, FALSE),
                   !.error = {name},
                   !.rest = AfterFailure(@)]

\* the loop of handleFileSelect after an upload has returned
forOfFiles(u) ==
    IF u.rest = <<>> THEN u
    ELSE uploadSingleFile([u EXCEPT !.rest = Tail(@)], Head(u.rest))

\* The upload request settles; the loop then uploads the next file, if one
\* is left.
uploadAudioSettles(ok) ==
    /\ uploader.uploading
    /\ uploader' = forOfFiles(uploadSingleFileSettled(uploader, ok))
    /\ UNCHANGED <<backend, client, hook, page, preview>>

(***************************************************************************)
(* AudioPreview: the time range of the two sliders.                        *)
(***************************************************************************)
\* longest audio file, in seconds
MaxDuration == 8

\* The parent passes another duration (another file was chosen): the effect
\* on [duration] sets endTime to it, unless it is 0.
durationChanges(duration) ==
    /\ duration \in 0..MaxDuration
    /\ duration # preview.duration
    /\ preview' = [preview EXCEPT
                        !.duration = duration,
                        !.endTime = IF duration # 0 THEN duration ELSE @]
    /\ UNCHANGED <<backend, client, hook, page, uploader>>

\* The start slider (min 0, max duration, step 1) is moved to value
startTimeChanges(value) ==
    /\ value \in 0..preview.duration
    /\ preview' = [preview EXCEPT
                        !.startTime = IF value < preview.endTime
                                      THEN value ELSE @]
    /\ UNCHANGED <<backend, client, hook, page, uploader>>

\* The end slider (min 0, max duration, step 1) is moved to value
endTimeChanges(value) ==
    /\ value \in 0..preview.duration
    /\ preview' = [preview EXCEPT
                        !.endTime = IF value > preview.startTime
                                    THEN value ELSE @]
    /\ UNCHANGED <<backend, client, hook, page, uploader>>

(***************************************************************************)
(* Queue and worker pool.                                                  *)
(***************************************************************************)
\* task messages a worker process holds: reserved or being executed
Held(w) == IF worker[w].pc = "idle" THEN 0 ELSE 1

\* a delivery that leaves the message visible to the other consumers
DeliveredKept(q) == q

\* the queue after its first message was handed to a worker
Delivered(q) == Tail(q)

\* a worker that leaves the messages of archived jobs on the queue
ClaimUnlessArchived(w) ==
    /\ Held(w) < worker_prefetch_multiplier
    /\ worker[w].pc = "idle"
    /\ queue # <<>>
    /\ ~jobs[Head(queue)].archived
    /\ worker' = [worker EXCEPT ![w] =
                    [Idle EXCEPT !.pc = "claimed", !.job_id = Head(queue),
                                 !.unacked = TRUE]]
    /\ queue' = Delivered(queue)
    /\ UNCHANGED <<jobs, next_id, outputs, crashes, stamps, client,
                   components>>

\* A free worker process takes the next message off the queue.  The message
\* stays unacknowledged until the task starts.
Claim(w) ==
    /\ Held(w) < worker_prefetch_multiplier
    /\ worker[w].pc = "idle"
    /\ queue # <<>>
    /\ worker' = [worker EXCEPT ![w] =
                    [Idle EXCEPT !.pc = "claimed", !.job_id = Head(queue),
                                 !.unacked = TRUE]]
    /\ queue' = Delivered(queue)
    /\ UNCHANGED <<jobs, next_id, outputs, crashes, stamps, client,
                   components>>

\* The task starts: the message is acknowledged (unless task_acks_late) and
\* status=processing is written before the computation begins.
Start(w) ==
    /\ worker[w].pc = "claimed"
    /\ jobs' = UpdateRow(worker[w].job_id, ProcessingRow(jobs[worker[w].job_id]))
    /\ worker' = [worker EXCEPT ![w].pc = "running",
                                ![w].unacked = task_acks_late]
    /\ UNCHANGED <<next_id, queue, outputs, crashes, stamps, client,
                   components>>

\* The engine calls the progress callback; the write may be dropped
\* (progress writes are best-effort and may be coalesced).
ProgressCallback(w) ==
    /\ worker[w].pc = "running"
    /\ worker[w].step < MaxSteps
    /\ worker' = [worker EXCEPT ![w].step = @ + 1]
    /\ \E written \in BOOLEAN :
         jobs' = IF written
                 THEN UpdateRow(worker[w].job_id,
                        ProgressRow(jobs[worker[w].job_id],
                                    Percent(worker[w].step + 1)))
                 ELSE jobs
    /\ UNCHANGED <<next_id, queue, outputs, crashes, stamps, client,
                   components>>

\* a task that never chains an enhancement
AutoEnhanceOff(row) == FALSE

\* whether the finished job asks for an enhancement of its transcript
AutoEnhance(row) == row.job_type = "transcribe" /\ row.auto_enhance

\* the task finds the row of its job and the row asks for the enhancement
Chains(job_id) == HasRow(job_id) /\ AutoEnhance(jobs[job_id])

\* The engine returned: the output file is saved and the row is completed;
\* with auto_enhance the task then submits the enhance job of the transcript.
Succeed(w) ==
    LET job_id == worker[w].job_id
        file == OutputFile(job_id, Now(job_id))
        completed == UpdateRow(job_id,
                        CompletedRow(jobs[job_id], file, Now(job_id)))
        chained == submit_enhance(completed, outputs \cup {file}, queue,
                                  next_id, job_id) IN
    /\ worker[w].pc = "running"
    /\ Chains(job_id) => next_id <= MaxJobs
    /\ outputs' = outputs \cup {file}
    /\ IF Chains(job_id)
       THEN /\ jobs' = chained.jobs
            /\ queue' = chained.queue
            /\ next_id' = chained.next_id
       ELSE /\ jobs' = completed
            /\ UNCHANGED <<next_id, queue>>
    /\ stamps' = Stamp(job_id)
    /\ worker' = [worker EXCEPT ![w].pc = "returned"]
    /\ UNCHANGED <<crashes, client,
                   components>>

\* a task body without a handler: the exception ends the worker process,
\* which the pool replaces
OnFailurePropagated(w, cause) ==
    /\ worker' = [worker EXCEPT ![w] = Idle]
    /\ crashes' = crashes + 1
    /\ UNCHANGED <<jobs, next_id, queue, outputs, stamps, client,
                   components>>

\* an exception handler that logs the error and returns
OnFailureSwallowed(w, cause) ==
    /\ worker' = [worker EXCEPT ![w].pc = "returned"]
    /\ UNCHANGED <<jobs, next_id, queue, outputs, crashes, stamps, client,
                   components>>

\* the task body's exception handler
OnFailure(w, cause) ==
    LET job_id == worker[w].job_id IN
    /\ jobs' = UpdateRow(job_id, FailedRow(jobs[job_id], cause, Now(job_id)))
    /\ stamps' = Stamp(job_id)
    /\ worker' = [worker EXCEPT ![w].pc = "returned"]
    /\ UNCHANGED <<next_id, queue, outputs, crashes, client,
                   components>>

\* The engine raised (corrupt input, quota or auth error).
Fail(w) ==
    /\ worker[w].pc = "running"
    /\ OnFailure(w, "ExecutionFailure")

\* task_soft_time_limit: SoftTimeLimitExceeded is raised inside the task,
\* whose body handles it like any other exception.
SoftTimeLimit(w) ==
    /\ worker[w].pc = "running"
    /\ OnFailure(w, "SoftTimeLimitExceeded")

\* The handling function has returned: a late acknowledgement is sent now
\* and the process is free for the next message.
Return(w) ==
    /\ worker[w].pc = "returned"
    /\ worker' = [worker EXCEPT ![w] = Idle]
    /\ UNCHANGED <<jobs, next_id, queue, outputs, crashes, stamps, client,
                   components>>

\* a broker that restores the message of every lost worker process
\* (task_reject_on_worker_lost, or a visibility timeout on running tasks)
RedeliveredAlways(w) == TRUE

\* Whether the broker gives the message of a lost worker process to another
\* worker: only a message that was not acknowledged yet is restored.
Redelivered(w) == worker[w].unacked

\* The worker process is gone and replaced by a new one.
WorkerLost(w) ==
    /\ crashes < MaxCrashes
    /\ crashes' = crashes + 1
    /\ queue' = IF Redelivered(w)
                THEN Append(queue, worker[w].job_id)
                ELSE queue
    /\ worker' = [worker EXCEPT ![w] = Idle]
    /\ UNCHANGED <<jobs, next_id, outputs, stamps, client,
                   components>>

\* The worker process dies (out of memory, killed container).
Crash(w) ==
    /\ worker[w].pc \in {"claimed", "running", "returned"}
    /\ WorkerLost(w)

\* task_time_limit: the pool kills a process whose task ran past the hard
\* limit (the engine did not react to the soft limit).
HardTimeLimit(w) ==
    /\ worker[w].pc = "running"
    /\ WorkerLost(w)

\* messages the queue holds when the sweep stops adding to it
MaxQueue == 3

\* The recovery sweep, run periodically: a job that has been pending beyond
\* the grace period and has no claimed message is published again.  The
\* sweep reads the jobs table and the claims; how long a job has been
\* pending is not bounded by anything the workers do, so the grace period of
\* a pending job may have passed at any time.
RecoverySweep(job_id) ==
    /\ Len(queue) < MaxQueue
    /\ HasRow(job_id)
    /\ jobs[job_id].status = "pending"
    /\ \A w \in Workers : worker[w].job_id # job_id
    /\ queue' = Append(queue, job_id)
    /\ UNCHANGED <<jobs, next_id, worker, outputs, crashes, stamps, client,
                   components>>

Next ==
    \/ CreateTranscribeJob(FALSE)
    \/ \E source \in JobIds : CreateEnhanceJob(source)
    \/ \E job_id \in JobIds : ArchiveJob(job_id)
    \/ \E job_id \in JobIds : UnarchiveJob(job_id)
    \/ \E w \in Workers : Claim(w)
    \/ \E w \in Workers : Start(w)
    \/ \E w \in Workers : ProgressCallback(w)
    \/ \E w \in Workers : Succeed(w)
    \/ \E w \in Workers : Fail(w)
    \/ \E w \in Workers : SoftTimeLimit(w)
    \/ \E w \in Workers : Return(w)
    \/ \E w \in Workers : Crash(w)
    \/ \E w \in Workers : HardTimeLimit(w)

Spec == Init /\ [][Next]_vars

\* Worker processes keep running: a free process takes the next message, a
\* claimed task starts, the engine returns or raises, the handler returns.
Fairness ==
    \A w \in Workers :
        /\ WF_vars(Claim(w))
        /\ WF_vars(Start(w))
        /\ WF_vars(Succeed(w) \/ Fail(w) \/ SoftTimeLimit(w))
        /\ WF_vars(Return(w))

FairSpec == Spec /\ Fairness

\* The steps of the worker pool
WorkerNext ==
    \/ \E w \in Workers : Claim(w)
    \/ \E w \in Workers : Start(w)
    \/ \E w \in Workers : ProgressCallback(w)
    \/ \E w \in Workers : Succeed(w)
    \/ \E w \in Workers : Fail(w)
    \/ \E w \in Workers : SoftTimeLimit(w)
    \/ \E w \in Workers : Return(w)
    \/ \E w \in Workers : Crash(w)
    \/ \E w \in Workers : HardTimeLimit(w)

\* Submission with the auto_enhance option: transcription jobs with and
\* without the option, enhance requests from the client and the worker pool.
ChainNext ==
    \/ \E auto_enhance \in BOOLEAN : CreateTranscribeJob(auto_enhance)
    \/ \E source \in JobIds : CreateEnhanceJob(source)
    \/ WorkerNext

ChainSpec == Init /\ [][ChainNext]_vars

\* Submission with a broker that is not always reachable.  The Celery app has
\* no beat schedule and the deployment starts no scheduler, so no periodic
\* task takes part.
DispatchNext ==
    \/ CreateTranscribeJob(FALSE)
    \/ DispatchFailure
    \/ \E source \in JobIds : CreateEnhanceJob(source)
    \/ WorkerNext

DispatchSpec == Init /\ [][DispatchNext]_vars /\ Fairness

\* The jobs tables GET /api/jobs is asked about: the job endpoints and the
\* worker pool.  Progress reports are left out, they write no column the
\* listing reads.
ListNext ==
    \/ CreateTranscribeJob(FALSE)
    \/ \E source \in JobIds : CreateEnhanceJob(source)
    \/ \E job_id \in JobIds : ArchiveJob(job_id)
    \/ \E job_id \in JobIds : UnarchiveJob(job_id)
    \/ \E w \in Workers : Claim(w)
    \/ \E w \in Workers : Start(w)
    \/ \E w \in Workers : Succeed(w)
    \/ \E w \in Workers : Fail(w)
    \/ \E w \in Workers : SoftTimeLimit(w)
    \/ \E w \in Workers : Return(w)
    \/ \E w \in Workers : Crash(w)
    \/ \E w \in Workers : HardTimeLimit(w)

ListSpec == Init /\ [][ListNext]_vars

\* Submission and deletion: jobs are deleted in any status, also while their
\* message is queued or their task runs.
DeleteNext ==
    \/ CreateTranscribeJob(FALSE)
    \/ \E source \in JobIds : CreateEnhanceJob(source)
    \/ \E job_id \in JobIds : DeleteJob(job_id)
    \/ WorkerNext

DeleteSpec == Init /\ [][DeleteNext]_vars

\* What is written to a row after its creation: jobs submitted with and
\* without auto_enhance, archive and unarchive, and the worker pool with its
\* writes and the redelivery after a lost worker.  The time limits are left
\* out: they write what a raised exception and a lost worker write.
RowNext ==
    \/ \E auto_enhance \in BOOLEAN : CreateTranscribeJob(auto_enhance)
    \/ \E source \in JobIds : CreateEnhanceJob(source)
    \/ \E job_id \in JobIds : ArchiveJob(job_id)
    \/ \E job_id \in JobIds : UnarchiveJob(job_id)
    \/ \E w \in Workers : Claim(w)
    \/ \E w \in Workers : Start(w)
    \/ \E w \in Workers : ProgressCallback(w)
    \/ \E w \in Workers : Succeed(w)
    \/ \E w \in Workers : Fail(w)
    \/ \E w \in Workers : Return(w)
    \/ \E w \in Workers : Crash(w)

RowSpec == Init /\ [][RowNext]_vars

\* Executions that fail: submission and the worker pool with an engine that
\* returns or raises, and no worker process lost.
FailureNext ==
    \/ CreateTranscribeJob(FALSE)
    \/ \E source \in JobIds : CreateEnhanceJob(source)
    \/ \E w \in Workers : Claim(w)
    \/ \E w \in Workers : Start(w)
    \/ \E w \in Workers : ProgressCallback(w)
    \/ \E w \in Workers : Succeed(w)
    \/ \E w \in Workers : Fail(w)
    \/ \E w \in Workers : SoftTimeLimit(w)
    \/ \E w \in Workers : Return(w)

FailureSpec == Init /\ [][FailureNext]_vars /\ Fairness

\* The user at the browser: jobs are submitted and run to their end, the
\* user moves between the pages, the lists are fetched and the buttons of
\* the listed jobs are clicked.  The jobs table changes through this one
\* browser and the worker only; one worker process takes the jobs (the
\* lists do not show which process ran a job).
BrowserNext ==
    \/ CreateTranscribeJob(FALSE)
    \/ \E source \in JobIds : CreateEnhanceJob(source)
    \/ Claim(1)
    \/ Start(1)
    \/ Succeed(1)
    \/ Return(1)
    \/ \E tab \in Tabs : Navigate(tab)
    \/ fetchJobs
    \/ \E response \in client.responses : setJobs(response)
    \/ \E i \in 1..MaxJobs : handleArchive(i)
    \/ \E i \in 1..MaxJobs : handleUnarchive(i)
    \/ \E i \in 1..MaxJobs : handleDelete(i)

BrowserSpec == Init /\ [][BrowserNext]_vars

\* Submission with a broker that is not always reachable, and the recovery
\* sweep that section 7 of the design requires for it.  No worker process is
\* lost and no engine raises: the sweep is the only source of a second
\* message.
SweepNext ==
    \/ CreateTranscribeJob(FALSE)
    \/ DispatchFailure
    \/ \E job_id \in JobIds : RecoverySweep(job_id)
    \/ \E w \in Workers : Claim(w)
    \/ \E w \in Workers : Start(w)
    \/ \E w \in Workers : Succeed(w)
    \/ \E w \in Workers : Return(w)

SweepSpec == Init /\ [][SweepNext]_vars

\* A component that follows job 1 with useJob while jobs are submitted and
\* run; refetch is not called and jobId does not change.  One worker process
\* takes the jobs and progress reports are left out: the hook's decisions
\* read the status only.
HookNext ==
    \/ CreateTranscribeJob(FALSE)
    \/ Claim(1)
    \/ Start(1)
    \/ Succeed(1)
    \/ Fail(1)
    \/ Return(1)
    \/ useJobEffect
    \/ useJobInterval
    \/ \E i \in 1..MaxRequests : fetchJob(i)

HookSpec == Init /\ [][HookNext]_vars

\* The user at the submit forms of the Transcribe and the Enhance page; a
\* create request succeeds or fails.
PageNext ==
    \/ \E tab \in Tabs : Visit(tab)
    \/ \E item \in Items : handleUploadSuccess(item)
    \/ \E item \in Items : handleSelect(item)
    \/ \E item \in Items : RemoveFile(item)
    \/ \E item \in Items : AddToQueue(item)
    \/ handleSubmitAll
    \/ \E call \in page.calls, ok \in BOOLEAN : createJobSettles(call, ok)
    \/ forOf

PageSpec == Init /\ [][PageNext]_vars

\* The user at the AudioUploader; an upload succeeds or fails.
UploaderNext ==
    \/ \E files \in Selections : handleFileSelect(files)
    \/ \E ok \in BOOLEAN : uploadAudioSettles(ok)

UploaderSpec == Init /\ [][UploaderNext]_vars

\* The user at the sliders of the AudioPreview, and the parent changing the
\* file it shows.
PreviewNext ==
    \/ \E duration \in 0..MaxDuration : durationChanges(duration)
    \/ \E value \in 0..MaxDuration : startTimeChanges(value)
    \/ \E value \in 0..MaxDuration : endTimeChanges(value)

PreviewSpec == Init /\ [][PreviewNext]_vars

(***************************************************************************)
(* Properties.                                                             *)
(***************************************************************************)
\* shape of the state
TypeOK ==
    /\ DOMAIN jobs = 1..(next_id - 1)
    /\ \A j \in DOMAIN jobs :
         /\ jobs[j].status \in Statuses
         /\ jobs[j].job_type \in {"transcribe", "enhance"}
         /\ jobs[j].progress \in 0..100
         /\ jobs[j].archived \in BOOLEAN
    /\ \A i \in 1..Len(queue) : queue[i] \in DOMAIN jobs
    /\ \A w \in Workers :
         /\ worker[w].pc \in {"idle", "claimed", "running", "returned"}
         /\ worker[w].pc # "idle" => worker[w].job_id \in DOMAIN jobs
    /\ crashes \in 0..MaxCrashes

Processing == {j \in DOMAIN jobs : jobs[j].status = "processing"}

\* worker w handles the message of job j (reserved, running or returning)
Handles(w, j) == worker[w].pc # "idle" /\ worker[w].job_id = j

\* C1: the status a poll reads for a job only ever moves along
\* pending -> processing -> completed | failed: a new job reads pending, no
\* step moves a status backwards or from pending straight to a terminal
\* status, and a terminal status never turns into the other one.
C1_StatusOrder ==
    [][\A j \in JobIds :
         /\ (~HasRow(j) /\ j \in DOMAIN jobs') => jobs'[j].status = "pending"
         /\ (HasRow(j) /\ j \in DOMAIN jobs') =>
              \/ jobs'[j].status = get_job(j).status
              \/ get_job(j).status = "pending" /\ jobs'[j].status = "processing"
              \/ get_job(j).status = "processing" /\ jobs'[j].status \in Terminal
      ]_vars

\* all jobs submitted; one completed, one failed, one still processing and
\* archived meanwhile
C1_Witness ==
    /\ next_id > MaxJobs
    /\ \E j, k, l \in DOMAIN jobs :
         /\ jobs[j].status = "completed"
         /\ jobs[k].status = "failed"
         /\ jobs[l].status = "processing" /\ jobs[l].archived

\* C2: when the handling function of a worker has returned for a message it
\* claimed (success, engine exception or soft time limit), the job is
\* completed or failed, never still processing.
C2_ReturnedIsTerminal ==
    \A w \in Workers :
        (worker[w].pc = "returned" /\ HasRow(worker[w].job_id))
            => jobs[worker[w].job_id].status \in Terminal

\* a handler that returned after the soft time limit was raised
C2_Witness ==
    \E w \in Workers :
        /\ worker[w].pc = "returned"
        /\ jobs[worker[w].job_id].error_message = "SoftTimeLimitExceeded"

\* C3: with a pool of `concurrency` worker processes at most that many jobs
\* have status processing.
C3_AtMostKProcessing == Cardinality(Processing) <= concurrency

\* C4: under fair scheduling of the workers and an engine that terminates,
\* every submitted job eventually is completed or failed.
C4_EveryJobTerminates ==
    \A j \in JobIds : HasRow(j) ~> (HasRow(j) /\ jobs[j].status \in Terminal)

\* C5: no two worker processes hold the same unacknowledged message.
C5_OneHolder ==
    \A w1, w2 \in Workers :
        ( /\ w1 # w2
          /\ worker[w1].pc # "idle" /\ worker[w1].unacked
          /\ worker[w2].pc # "idle" /\ worker[w2].unacked )
            => worker[w1].job_id # worker[w2].job_id

\* both worker processes hold a claimed, unacknowledged message
C5_Witness ==
    \E w1, w2 \in Workers :
        w1 # w2 /\ worker[w1].pc = "claimed" /\ worker[w2].pc = "claimed"

\* a job left in processing by a lost worker: no worker handles it
Stranded(j) ==
    /\ HasRow(j)
    /\ jobs[j].status = "processing"
    /\ ~\E w \in Workers : Handles(w, j)

\* C6: a job whose worker was lost while the job was processing does not stay
\* in processing forever: it eventually is completed or failed.
C6_LostJobRecovers ==
    \A j \in JobIds : Stranded(j) ~> (HasRow(j) /\ jobs[j].status \in Terminal)

\* C7: while a job stays in processing its progress never decreases, and a
\* completed job has progress exactly 100.
C7_ProgressMonotone ==
    [][\A j \in JobIds : (HasRow(j) /\ j \in DOMAIN jobs') =>
         /\ (jobs[j].status = "processing" /\ jobs'[j].status = "processing")
               => jobs'[j].progress >= jobs[j].progress
         /\ jobs'[j].status = "completed" => jobs'[j].progress = 100
      ]_vars

\* a completed job beside a running one whose last callback write was dropped
\* after an earlier one was written
C7_Witness ==
    /\ \E j \in DOMAIN jobs : jobs[j].status = "completed"
    /\ \E w \in Workers :
         /\ worker[w].pc = "running"
         /\ worker[w].step = MaxSteps
         /\ jobs[worker[w].job_id].progress > 0
         /\ jobs[worker[w].job_id].progress < Percent(MaxSteps)

\* C8: output_file is non-null exactly when status is completed.
C8_OutputIffCompleted ==
    \A j \in DOMAIN jobs :
        (jobs[j].output_file # NoFile) <=> (jobs[j].status = "completed")

\* a completed job with its output file beside a failed job without one
C8_Witness ==
    \E j, k \in DOMAIN jobs :
        /\ jobs[j].status = "completed" /\ jobs[j].output_file \in outputs
        /\ jobs[k].status = "failed" /\ jobs[k].output_file = NoFile

\* C9: error_message is non-null exactly when status is failed.
C9_ErrorIffFailed ==
    \A j \in DOMAIN jobs :
        (jobs[j].error_message # NoError) <=> (jobs[j].status = "failed")

\* a job failed by the engine beside a job still processing and a pending one
C9_Witness ==
    \E j, k, l \in DOMAIN jobs :
        /\ jobs[j].status = "failed"
        /\ jobs[j].error_message = "ExecutionFailure"
        /\ jobs[k].status = "processing"
        /\ jobs[l].status = "pending"

C11_ProcessingBeforeCompute ==
    \A w \in Workers :
        (worker[w].pc = "running" /\ HasRow(worker[w].job_id))
            => get_job(worker[w].job_id).status # "pending"

\* one worker computes a job that reads processing before any progress was
\* reported, the other has reserved a message whose task has not started
C11_Witness ==
    \E w1, w2 \in Workers :
        /\ worker[w1].pc = "running" /\ worker[w1].step = 0
        /\ get_job(worker[w1].job_id).status = "processing"
        /\ get_job(worker[w1].job_id).progress = 0
        /\ worker[w2].pc = "claimed"
        /\ get_job(worker[w2].job_id).status = "pending"

\* the id resolves to an existing job with status completed
Resolves(source) == HasRow(source) /\ jobs[source].status = "completed"

\* a rejected request leaves the jobs table, the id counter and the queue alone
NoEffect(response) ==
    /\ response.jobs = jobs
    /\ response.next_id = next_id
    /\ response.queue = queue

\* C12 as stated: an enhance request whose source does not resolve to a
\* completed job fails with InvalidPrecondition (400 Bad Request) and has no
\* effect.
C12_RejectedIsInvalidPrecondition ==
    \A source \in JobIds :
        ~Resolves(source) =>
            /\ create_enhance_job(source).status_code = BadRequest
            /\ NoEffect(create_enhance_job(source))

\* C12, amended: an enhance request whose source does not resolve to a
\* completed job fails with NotFound (404) when no job has that id and with
\* InvalidPrecondition (400) when the job is not completed; in both cases no
\* row is created, no id is consumed and no message is published.
C12_RejectedHasNoEffect ==
    \A source \in JobIds :
        ~Resolves(source) =>
            /\ create_enhance_job(source).status_code =
                   (IF HasRow(source) THEN BadRequest ELSE NotFound)
            /\ NoEffect(create_enhance_job(source))

\* an enhance job was accepted for a completed job and is being processed
\* while a request naming it (not completed) or an id without a row is
\* rejected
C12_Witness ==
    \E j, k, m \in JobIds :
        /\ HasRow(j) /\ jobs[j].job_type = "transcribe"
        /\ create_enhance_job(j).status_code = OK
        /\ HasRow(k) /\ jobs[k].job_type = "enhance"
        /\ jobs[k].status = "processing"
        /\ create_enhance_job(k).status_code = BadRequest
        /\ ~HasRow(m)
        /\ create_enhance_job(m).status_code = NotFound

\* the job whose transcript an enhance job was created from
SourceOf(j) == jobs[j].input_file[1]

\* C13: every enhance job was created from a job of type transcribe that was
\* completed; no enhance job has an enhance job as its source.
C13_EnhanceSourceIsTranscribe ==
    \A j \in DOMAIN jobs :
        jobs[j].job_type = "enhance" =>
            /\ HasRow(SourceOf(j))
            /\ jobs[SourceOf(j)].status = "completed"
            /\ jobs[SourceOf(j)].job_type = "transcribe"

\* job j turns completed in this step
Completes(j) ==
    /\ HasRow(j) /\ jobs[j].status # "completed"
    /\ j \in DOMAIN jobs' /\ jobs'[j].status = "completed"

\* job j turns failed in this step
Fails(j) ==
    /\ HasRow(j) /\ jobs[j].status # "failed"
    /\ j \in DOMAIN jobs' /\ jobs'[j].status = "failed"

\* this step creates no row and consumes no id
NoRowCreated ==
    /\ DOMAIN jobs' = DOMAIN jobs
    /\ next_id' = next_id

\* this step creates no row and publishes no message
NothingSubmitted == NoRowCreated /\ queue' = queue

\* job j was submitted as a transcription with the auto_enhance option
Flagged(j) == jobs[j].job_type = "transcribe" /\ jobs[j].auto_enhance = TRUE

Undispatched(j) ==
    /\ HasRow(j)
    /\ jobs[j].status = "pending"
    /\ ~\E i \in 1..Len(queue) : queue[i] = j
    /\ ~\E w \in Workers : Handles(w, j)

\* C15: a job whose row was written but whose message was never published
\* does not stay pending without a message forever: a message for it is
\* published again (so that a live worker can bring it to a terminal status).
C15_PendingIsRepublished ==
    \A j \in JobIds : Undispatched(j) ~> ~Undispatched(j)

\* the files in the outputs volume written for job j
OutputsOf(j) == {file \in outputs : file[1] = j}

C17_ArchiveIdempotent ==
    \A j \in DOMAIN jobs :
        /\ archive_job(jobs, j)[j].archived = TRUE
        /\ archive_job(archive_job(jobs, j), j) = archive_job(jobs, j)
        /\ jobs[j].archived => archive_job(jobs, j) = jobs
        /\ unarchive_job(jobs, j)[j].archived = FALSE
        /\ unarchive_job(unarchive_job(jobs, j), j) = unarchive_job(jobs, j)
        /\ ~jobs[j].archived => unarchive_job(jobs, j) = jobs

\* an archived pending job, an archived completed job and a failed job that is
\* not archived
C17_Witness ==
    \E j, k, l \in DOMAIN jobs :
        /\ jobs[j].status = "pending" /\ jobs[j].archived
        /\ jobs[k].status = "completed" /\ jobs[k].archived
        /\ jobs[l].status = "failed" /\ ~jobs[l].archived

Unarchived(row) == [row EXCEPT !.archived = FALSE]

\* the write gives an archived row what it gives the unarchived one
SameAsUnarchived(written, unarchived_written) ==
    written.archived /\ Unarchived(written) = unarchived_written

\* C19: archive is accepted for a job in any status, and an archived job
\* goes through the worker like any other: its message is claimed by a free
\* worker, its task starts, reports progress and can complete or fail, and
\* each of these writes gives the row exactly what it gives the unarchived
\* row.
C19_ArchivedJobStillProcessed ==
    /\ \A j \in DOMAIN jobs : ENABLED ArchiveJob(j)
    /\ \A w \in Workers :
          (worker[w].pc = "idle" /\ queue # <<>> /\ jobs[Head(queue)].archived)
              => ENABLED Claim(w)
    /\ \A w \in Workers :
          (worker[w].pc # "idle" /\ jobs[worker[w].job_id].archived) =>
             LET row == jobs[worker[w].job_id] IN
             /\ worker[w].pc = "claimed" =>
                   /\ ENABLED Start(w)
                   /\ SameAsUnarchived(ProcessingRow(row),
                                       ProcessingRow(Unarchived(row)))
             /\ (worker[w].pc = "running" /\ worker[w].step < MaxSteps) =>
                   /\ ENABLED ProgressCallback(w)
                   /\ SameAsUnarchived(
                         ProgressRow(row, Percent(worker[w].step + 1)),
                         ProgressRow(Unarchived(row),
                                     Percent(worker[w].step + 1)))
             /\ worker[w].pc = "running" =>
                   /\ ENABLED Succeed(w)
                   /\ ENABLED Fail(w)
                   /\ SameAsUnarchived(
                         CompletedRow(row, UploadedFile, NoTime),
                         CompletedRow(Unarchived(row), UploadedFile, NoTime))
                   /\ SameAsUnarchived(
                         FailedRow(row, NoError, NoTime),
                         FailedRow(Unarchived(row), NoError, NoTime))
             /\ worker[w].pc = "returned" =>
                   /\ ENABLED Return(w)
                   /\ row.status \in Terminal

\* a job archived while it was pending is on the queue, a job archived before
\* it finished has been completed by its worker, and the task of a third
\* archived job has been claimed
C19_Witness ==
    \E w1, w2 \in Workers :
        /\ queue # <<>> /\ jobs[Head(queue)].archived
        /\ jobs[Head(queue)].status = "pending"
        /\ worker[w1].pc = "returned"
        /\ jobs[worker[w1].job_id].archived
        /\ jobs[worker[w1].job_id].status = "completed"
        /\ worker[w2].pc = "claimed"
        /\ jobs[worker[w2].job_id].archived

\* page sizes and offsets asked for
MaxLimit == 2
MaxOffset == 1

\* a filters object without the key, or with one of the values
Optional(key, values) == {NoParam} \cup {key :> value : value \in values}

\* the filters objects getJobs is called with; archived is 0 or 1 as in
\* useJobs({ archived: 0 }) and useJobs({ archived: 1 })
Filters ==
    { a @@ b @@ c @@ d @@ e :
        a \in Optional("job_type", JobTypes),
        b \in Optional("status", Statuses),
        c \in Optional("archived", {0, 1}),
        d \in Optional("limit", 1..MaxLimit),
        e \in Optional("offset", 1..MaxOffset) }

\* the filter leaves the column open or asks for this value
Wanted(filters, key, value) == key \in DOMAIN filters => filters[key] = value

\* the jobs a filters object asks for: archived 1 the archived ones,
\* archived 0 the others, no archived key all
Matching(filters) ==
    {j \in DOMAIN jobs :
        /\ Wanted(filters, "job_type", jobs[j].job_type)
        /\ Wanted(filters, "status", jobs[j].status)
        /\ Wanted(filters, "archived", IF jobs[j].archived THEN 1 ELSE 0)}

Given(filters, key, default) ==
    IF key \in DOMAIN filters THEN filters[key] ELSE default

\* C20: for every filters object, getJobs answers with total = the number of
\* jobs matching job_type, status and the tri-state archived filter
\* (archived 0 is a filter, not "unset"), and with the matching jobs from
\* newest to oldest by created_at, the first `offset` skipped and at most
\* `limit` returned.
C20_ListFilters ==
    \A filters \in Filters :
        LET response == getJobs(filters)
            matching == Matching(filters)
            limit == Given(filters, "limit", default_limit)
            offset == Given(filters, "offset", default_offset)
            rest == IF Cardinality(matching) > offset
                    THEN Cardinality(matching) - offset ELSE 0
        IN /\ response.total = Cardinality(matching)
           /\ Len(response.jobs) = IF limit < rest THEN limit ELSE rest
           /\ \A i \in 1..Len(response.jobs) :
                 /\ response.jobs[i] \in matching
                 /\ Cardinality({k \in matching :
                        jobs[k].created_at
                            > jobs[response.jobs[i]].created_at})
                       = offset + i - 1

\* three jobs, the second archived: archived 0 lists the other two from
\* newest to oldest, archived 1 the second, no filter all three, and the
\* second page of size one of the completed transcriptions is the oldest job
C20_Witness ==
    /\ getJobs("archived" :> 0) = [jobs |-> <<3, 1>>, total |-> 2]
    /\ getJobs("archived" :> 1) = [jobs |-> <<2>>, total |-> 1]
    /\ getJobs(NoParam) = [jobs |-> <<3, 2, 1>>, total |-> 3]
    /\ getJobs(("job_type" :> "transcribe") @@ ("status" :> "completed")
                @@ ("limit" :> 1) @@ ("offset" :> 1))
          = [jobs |-> <<1>>, total |-> 2]

\* C21: archive, unarchive, delete and get called with an id that has no row
\* (never assigned, or deleted) answer 404 Not Found and leave the jobs table
\* and the outputs volume as they are; no step of these endpoints is taken,
\* so the queue stays as it is too.
C21_MissingIdIsNotFound ==
    \A job_id \in JobIds :
        ~HasRow(job_id) =>
            /\ RowStatusCode(jobs, job_id) = NotFound
            /\ put_archive(jobs, job_id)
                  = [status_code |-> NotFound, jobs |-> jobs]
            /\ put_unarchive(jobs, job_id)
                  = [status_code |-> NotFound, jobs |-> jobs]
            /\ delete_job(jobs, outputs, Uploads, job_id)
                  = [status_code |-> NotFound, jobs |-> jobs,
                     outputs |-> outputs, uploads |-> Uploads]
            /\ ~ENABLED ArchiveJob(job_id)
            /\ ~ENABLED UnarchiveJob(job_id)
            /\ ~ENABLED DeleteJob(job_id)

\* one id was never assigned; another belonged to a job that was deleted
\* while its task ran: its message was held, the file its task wrote is in
\* the outputs volume
C21_Witness ==
    /\ next_id <= MaxJobs
    /\ \E job_id \in JobIds :
          /\ job_id < next_id /\ ~HasRow(job_id)
          /\ OutputsOf(job_id) # {}

\* C22: get_result of an existing job answers 400 (InvalidState) without
\* content while the job is pending, processing or failed and 200 with the
\* job's own output when it is completed; the table's View and Download
\* handlers send no request for a job that is not completed.
C22_ResultOnlyWhenCompleted ==
    \A j \in DOMAIN jobs :
        LET response == get_job_result(jobs, outputs, j) IN
        /\ jobs[j].status \in {"pending", "processing", "failed"} =>
              /\ response = [status_code |-> BadRequest, content |-> NoFile]
              /\ handleDownload(j, jobs[j]) = NoRequest
        /\ jobs[j].status = "completed" =>
              /\ response.status_code = OK
              /\ response.content = jobs[j].output_file
              /\ response.content \in OutputsOf(j)
              /\ handleDownload(j, jobs[j]) = response
        /\ response.content # NoFile => jobs[j].status = "completed"

\* a completed job whose result is returned, beside a failed job and a job
\* in processing that has reported progress
C22_Witness ==
    \E j, k, l \in DOMAIN jobs :
        /\ get_job_result(jobs, outputs, j).status_code = OK
        /\ jobs[k].status = "failed"
        /\ jobs[l].status = "processing" /\ jobs[l].progress > 0

\* job j is deleted in this step
Deleted(j) == HasRow(j) /\ j \notin DOMAIN jobs'

\* C23: an existing job can be deleted in any status; the step that deletes
\* it removes its row and, if it names one, its output file, removes no
\* other file (not the transcript an enhance job was created from, not the
\* uploaded audio), and afterwards get answers 404 for the id.
C23_DeleteRemovesRowAndOutput ==
    /\ [](\A j \in DOMAIN jobs :
            /\ ENABLED DeleteJob(j)
            /\ delete_job(jobs, outputs, Uploads, j).status_code = OK
            /\ delete_job(jobs, outputs, Uploads, j).uploads = Uploads)
    /\ [][\A j \in JobIds : Deleted(j) =>
            /\ outputs' = outputs \ {jobs[j].output_file}
            /\ jobs[j].output_file \notin outputs'
            /\ jobs[j].input_file \in outputs
                  => jobs[j].input_file \in outputs'
            /\ RowStatusCode(jobs', j) = NotFound
         ]_vars

\* a job was deleted after its task had finished and none of its files is
\* left, while a completed enhance job and the transcript it was created
\* from are there to be deleted
C23_Witness ==
    \E i \in JobIds, j \in DOMAIN jobs :
        /\ i < next_id /\ ~HasRow(i)
        /\ stamps[i] = 1 /\ OutputsOf(i) = {}
        /\ jobs[j].job_type = "enhance" /\ jobs[j].status = "completed"
        /\ jobs[j].output_file \in outputs
        /\ jobs[j].input_file \in outputs

\* the enhance jobs created from the transcript of job j
EnhancedFrom(j) ==
    {k \in DOMAIN jobs : jobs[k].job_type = "enhance" /\ SourceOf(k) = j}

\* C24: deleting a completed transcribe job leaves every enhance job created
\* from it as it is (row, status, output_file and the output file itself),
\* and get_result of such a job answers after the delete what it answered
\* before: a completed enhance job still returns its own result.
C24_DeleteDoesNotCascade ==
    \A j \in DOMAIN jobs :
        (jobs[j].job_type = "transcribe" /\ jobs[j].status = "completed") =>
            LET after == delete_job(jobs, outputs, Uploads, j) IN
            \A k \in EnhancedFrom(j) :
                /\ k \in DOMAIN after.jobs
                /\ after.jobs[k] = jobs[k]
                /\ jobs[k].output_file \in outputs
                      => jobs[k].output_file \in after.outputs
                /\ get_job_result(after.jobs, after.outputs, k)
                      = get_job_result(jobs, outputs, k)
                /\ jobs[k].status = "completed" =>
                      /\ get_job_result(after.jobs, after.outputs, k)
                            .status_code = OK
                      /\ get_job_result(after.jobs, after.outputs, k)
                            .content = jobs[k].output_file

\* a completed enhance job returns its result after the transcribe job it
\* was created from was deleted, while another enhance job of a transcript
\* that is still there is pending
C24_Witness ==
    \E k, l \in DOMAIN jobs :
        /\ jobs[k].job_type = "enhance"
        /\ ~HasRow(SourceOf(k))
        /\ get_job_result(jobs, outputs, k).status_code = OK
        /\ jobs[l].job_type = "transcribe"
        /\ jobs[l].status = "completed"

C25_SubmittedIsImmutable ==
    [][\A j \in JobIds : (HasRow(j) /\ j \in DOMAIN jobs') =>
         /\ jobs'[j].job_type = jobs[j].job_type
         /\ jobs'[j].input_file = jobs[j].input_file
         /\ jobs'[j].auto_enhance = jobs[j].auto_enhance
         /\ jobs'[j].created_at = jobs[j].created_at
      ]_vars

\* a transcription submitted with auto_enhance was archived and completed
\* after a worker was lost; the enhance job of its transcript is being
\* processed and was archived and unarchived or never archived
C25_Witness ==
    \E j, k \in DOMAIN jobs :
        /\ crashes = MaxCrashes
        /\ jobs[j].job_type = "transcribe" /\ jobs[j].auto_enhance = TRUE
        /\ jobs[j].status = "completed" /\ jobs[j].archived
        /\ jobs[k].job_type = "enhance"
        /\ jobs[k].input_file = jobs[j].output_file
        /\ jobs[k].status = "processing" /\ jobs[k].progress > 0
        /\ ~jobs[k].archived

\* C27: when the engine raises while a worker runs a job, the step leaves the
\* job failed with an error message, loses no worker process and no message
\* and leaves the other worker alone; the worker's handler then returns and
\* the worker is free again, and every submitted job, whatever failed before
\* it, eventually is completed or failed.
C27_FailureIsContained ==
    /\ [][\A w \in Workers : (Fail(w) \/ SoftTimeLimit(w)) =>
            /\ jobs'[worker[w].job_id].status = "failed"
            /\ jobs'[worker[w].job_id].error_message # NoError
            /\ worker'[w].pc = "returned"
            /\ crashes' = crashes
            /\ queue' = queue
            /\ \A v \in Workers \ {w} : worker'[v] = worker[v]
         ]_vars
    /\ \A w \in Workers :
          (worker[w].pc = "returned") ~> (worker[w].pc = "idle")
    /\ \A j \in JobIds :
          HasRow(j) ~> (HasRow(j) /\ jobs[j].status \in Terminal)

\* the first job failed when the engine raised, and both workers, one of
\* which handled it, are running the jobs submitted after it
C27_Witness ==
    /\ HasRow(1) /\ jobs[1].status = "failed"
    /\ jobs[1].error_message = "ExecutionFailure"
    /\ \A w \in Workers :
          worker[w].pc = "running" /\ worker[w].job_id > 1

\* the step writes status, progress, output_file, error_message or
\* completed_at of job j
WorkerWrites(j) ==
    \/ jobs'[j].status # jobs[j].status
    \/ jobs'[j].progress # jobs[j].progress
    \/ jobs'[j].output_file # jobs[j].output_file
    \/ jobs'[j].error_message # jobs[j].error_message
    \/ jobs'[j].completed_at # jobs[j].completed_at

C29_DeleteOnlyFromArchiveTab ==
    [][\A j \in JobIds : Deleted(j) =>
            /\ client.tab = "archive"
            /\ jobs[j].archived
      ]_vars

\* C30: once the refetch that followed a job's archive request has been
\* applied to the list of the Transcribe or Enhance page, the list does not
\* show the job as long as the job stays archived, whatever response is
\* applied to the list later.
C30_ArchivedStaysHidden ==
    \A j \in client.applied :
        (client.tab \in {"transcribe", "enhance"}
            /\ HasRow(j) /\ jobs[j].archived)
                => j \notin Listed

\* workers that are executing the task of job j
Executing(j) == {w \in Workers : worker[w].pc = "running"
                                    /\ worker[w].job_id = j}

Orphans == {file \in outputs : file[1] \notin DOMAIN jobs}

\* a step the worker process w can take
Proceeds(w) == Start(w) \/ Succeed(w) \/ Fail(w) \/ Return(w)

\* C32: when the row of a job is deleted while its message is queued or its
\* task runs, the worker that holds the message does not create the row
\* again, no output file of the deleted job is left in the outputs volume,
\* and the worker can go on until it is free for the next message.
C32_DeletedJobIsDropped ==
    /\ [](Orphans = {})
    /\ [](\A w \in Workers :
            (worker[w].pc # "idle" /\ ~HasRow(worker[w].job_id))
                => ENABLED Proceeds(w))
    /\ [][\A j \in JobIds : (j < next_id /\ ~HasRow(j))
                                => j \notin DOMAIN jobs']_vars

\* C33: once a fetch of useJob has returned the job completed or failed, no
\* further getJob request is issued (jobId stays the same and refetch is not
\* called).
C33_PollingStops ==
    [][hook.job \in Terminal => hook'.issued = hook.issued]_vars

\* the batch loop sends the create request of an item in this step
LoopSubmits(item) ==
    /\ [item |-> item, batch |-> TRUE] \notin page.calls
    /\ [item |-> item, batch |-> TRUE] \in page'.calls

\* C34: the loop of handleSubmitAll does not submit a file that was removed
\* from the list or submitted through its own Add to Queue button since the
\* batch started.
C34_BatchSubmitsOnce ==
    [][\A item \in Items : LoopSubmits(item) =>
            /\ item \in Range(page.list)
            /\ item \notin page.single
      ]_vars

\* C35: when handleSubmitSingle returns for an item, submittingJobs has no
\* entry for the item; after a successful request the item is no longer in
\* the list, after a failed one the list is as it was and error names the
\* item.
C35_SingleSubmitSettles ==
    [][\A call \in page.calls, ok \in BOOLEAN :
            createJobSettles(call, ok) =>
                /\ call.item \notin page'.submittingJobs
                /\ ok => call.item \notin Range(page'.list)
                /\ ~ok => /\ page'.list = page.list
                          /\ page'.error = {call.item}
      ]_vars

\* C35 witness: on the Enhance page a request has failed, with the job still
\* selected, named by error and not marked as submitting, while the other
\* job was submitted and left the selection.
C35_Witness ==
    /\ page.kind = "enhance"
    /\ page.error = {2}
    /\ page.list = <<2>>
    /\ page.submittingJobs = {}
    /\ page.batch = "finished"
    /\ page.failed

\* C36: when a batch submission ends and one of its create requests failed,
\* error is not null.
C36_BatchFailureIsShown ==
    [][(page.batch = "running" /\ page'.batch = "finished" /\ page'.failed)
            => page'.error # {}]_vars

\* the audio extensions of docs/api.md, Supported Formats
AudioExtensions == {"mp3", "wav", "flac", "aac", "ogg", "m4a", "wma"}

\* the file has an extension (the part after its last dot), and that
\* extension, whatever its case, is not an audio extension
ExtensionOutside(name) ==
    /\ Len(name) > 1
    /\ toLowerCase(name[Len(name)]) \notin AudioExtensions

\* C37: when a file of the selection has an extension outside the allowed
\* set, no upload request is sent for any file of the selection and error
\* names each such file.
C37_SelectionValidatedFirst ==
    \A i \in 1..Len(uploader.files) :
        ExtensionOutside(uploader.files[i]) =>
            /\ uploader.requests = <<>>
            /\ uploader.files[i] \in uploader.error

\* C37 witness: a selection of two audio files followed by a text file was
\* rejected as a whole.
C37_Witness ==
    /\ uploader.files = <<<<"song", "mp3">>, <<"talk", "MP3">>,
                           <<"notes", "txt">>>>
    /\ uploader.requests = <<>>
    /\ uploader.error = {<<"notes", "txt">>}

\* C38: within one call of handleFileSelect the uploads are sent in the
\* order of the selection, one is sent only after the one before it has
\* settled, onUploadSuccess is called once for each file whose upload
\* succeeded, and no upload is sent after one that failed.
C38_UploadsAreSequential ==
    LET u == uploader IN
    /\ Len(u.requests) <= Len(u.files)
    /\ u.requests = SubSeq(u.files, 1, Len(u.requests))
    /\ Len(u.requests) - Len(u.results) = (IF u.uploading THEN 1 ELSE 0)
    /\ (\A i \in 1..Len(u.results) : u.results[i])
            => u.succeeded = SubSeq(u.files, 1, Len(u.results))
    /\ \A i \in 1..Len(u.results) : ~u.results[i] =>
            /\ Len(u.requests) = i
            /\ u.succeeded = SubSeq(u.files, 1, i - 1)

\* C38 witness: of three selected files the first was uploaded and reported,
\* the second failed and the third was never sent.
C38_Witness ==
    /\ Len(uploader.files) = 3
    /\ uploader.results = <<TRUE, FALSE>>
    /\ Len(uploader.requests) = 2
    /\ uploader.succeeded = <<uploader.files[1]>>
    /\ ~uploader.uploading

\* C39: while the duration is positive, the start of the selected range is
\* before its end.
C39_RangeIsOrdered ==
    preview.duration > 0 => preview.startTime < preview.endTime

====
